---- MODULE Spec2Model ----
(***************************************************************************)
(* Model of the schema question-answering service: the startup sequence of *)
(* main, the two request handlers (POST /generate, GET /test), the query   *)
(* pipeline process_query and the LLM client LLMRequest.                   *)
(*                                                                         *)
(* Text is modelled as a sequence of one-character strings, so that        *)
(* formatting, joining, quoting and escaping are computed character by     *)
(* character.                                                              *)
(***************************************************************************)
EXTENDS Integers, Sequences, FiniteSets, TLC

(***************************************************************************)
(* Bounds of the model.                                                    *)
(***************************************************************************)
\* number of requests the server accepts in one run
MaxRequests == 2

Requests == 1..MaxRequests

(***************************************************************************)
(* serde_json::Value, as far as the LLM client uses it.                    *)
(***************************************************************************)
Null == [t |-> "Null"]

JString(s) == [t |-> "String", s |-> s]

JNumber(n) == [t |-> "Number", n |-> n]

JArray(a) == [t |-> "Array", a |-> a]

\* a number with one decimal digit, held in tenths (f32 values 0.5 and 1.0)
JFloat(tenths) == [t |-> "Float", n |-> tenths]

\* o is a sequence of <<key, value>> pairs, in key order
JObject(o) == [t |-> "Object", o |-> o]

\* value["key"]: Null when value is no object or has no such key
IndexKey(v, k) ==
  IF v.t = "Object" /\ \E i \in 1..Len(v.o) : v.o[i][1] = k
  THEN v.o[CHOOSE i \in 1..Len(v.o) : v.o[i][1] = k][2]
  ELSE Null

\* value[i], i counted from 0: Null when value is no array or i is out of range
IndexPos(v, i) ==
  IF v.t = "Array" /\ i < Len(v.a) THEN v.a[i + 1] ELSE Null

RECURSIVE Escape(_)
\* the JSON escaping of the characters of a string
Escape(s) ==
  IF s = <<>> THEN <<>>
  ELSE LET c == Head(s)
           e == IF c = "\"" THEN <<"\\", "\"">>
                ELSE IF c = "\\" THEN <<"\\", "\\">>
                ELSE IF c = "\n" THEN <<"\\", "n">>
                ELSE IF c = "\t" THEN <<"\\", "t">>
                ELSE <<c>>
       IN  e \o Escape(Tail(s))

Quote(s) == <<"\"">> \o Escape(s) \o <<"\"">>

DigitChars == <<"0", "1", "2", "3", "4", "5", "6", "7", "8", "9">>

RECURSIVE Digits(_)
Digits(n) ==
  IF n < 10 THEN <<DigitChars[n + 1]>>
  ELSE Digits(n \div 10) \o <<DigitChars[(n % 10) + 1]>>

RECURSIVE ValueToString(_)
RECURSIVE JoinValues(_)
RECURSIVE JoinMembers(_)
\* Display for serde_json::Value: the compact JSON text of the value
ValueToString(v) ==
  IF v.t = "Null" THEN <<"n", "u", "l", "l">>
  ELSE IF v.t = "String" THEN Quote(v.s)
  ELSE IF v.t = "Number" THEN Digits(v.n)
  ELSE IF v.t = "Float" THEN Digits(v.n \div 10) \o <<".">> \o Digits(v.n % 10)
  ELSE IF v.t = "Array" THEN <<"[">> \o JoinValues(v.a) \o <<"]">>
  ELSE <<"{">> \o JoinMembers(v.o) \o <<"}">>

JoinValues(a) ==
  IF a = <<>> THEN <<>>
  ELSE IF Len(a) = 1 THEN ValueToString(a[1])
  ELSE ValueToString(a[1]) \o <<",">> \o JoinValues(Tail(a))

JoinMembers(o) ==
  IF o = <<>> THEN <<>>
  ELSE LET m == Quote(o[1][1]) \o <<":">> \o ValueToString(o[1][2])
       IN  IF Len(o) = 1 THEN m ELSE m \o <<",">> \o JoinMembers(Tail(o))

(***************************************************************************)
(* Names of JSON members and message roles.                                *)
(***************************************************************************)
K_choices == <<"c", "h", "o", "i", "c", "e", "s">>

K_message == <<"m", "e", "s", "s", "a", "g", "e">>

K_content == <<"c", "o", "n", "t", "e", "n", "t">>

K_role == <<"r", "o", "l", "e">>

K_messages == <<"m", "e", "s", "s", "a", "g", "e", "s">>

K_max_tokens == <<"m", "a", "x", "_", "t", "o", "k", "e", "n", "s">>

K_temperature == <<"t", "e", "m", "p", "e", "r", "a", "t", "u", "r", "e">>

K_error == <<"e", "r", "r", "o", "r">>

RoleSystem == <<"s", "y", "s", "t", "e", "m">>

RoleUser == <<"u", "s", "e", "r">>

(***************************************************************************)
(* The LLM backend's possible answers.                                     *)
(***************************************************************************)
\* the generated texts the backend may answer with: ok and a"b
Contents == { <<"o", "k">>, <<"a", "\"", "b">> }

\* {"choices":[{"message":{"content":c}}]}
ChatCompletion(c) ==
  JObject(<< <<K_choices,
               JArray(<< JObject(<< <<K_message,
                                      JObject(<< <<K_content, c>> >>)>> >>) >>)>> >>)

\* {"error":"no"}
ErrorDocument == JObject(<< <<K_error, JString(<<"n", "o">>)>> >>)

\* the JSON documents the backend may answer with
ReplyValues ==
  { ChatCompletion(JString(s)) : s \in Contents }
    \cup { ChatCompletion(JNumber(7)), ErrorDocument }

\* a body that is no JSON document
NotJsonText == <<"B", "a", "d", " ", "G", "a", "t", "e", "w", "a", "y">>

ReplyBodies == { ValueToString(v) : v \in ReplyValues } \cup { NotJsonText }

\* what the transport and the backend do with one POST: the connection fails
\* ("err"), the body fails to arrive ("body_err"), or a status and a body come back
LLMReplies ==
  { [net |-> "err", status |-> 0, body |-> <<>>],
    [net |-> "body_err", status |-> 200, body |-> <<>>] }
    \cup [net : {"ok"}, status : {200}, body : ReplyBodies]
    \cup [net : {"ok"}, status : {500},
          body : { ValueToString(ErrorDocument), NotJsonText } \cup
                   { ValueToString(ChatCompletion(JString(s))) : s \in Contents }]

\* serde_json::from_str over the documents above
from_str(text) ==
  IF \E v \in ReplyValues : ValueToString(v) = text
  THEN [ok |-> TRUE, v |-> CHOOSE v \in ReplyValues : ValueToString(v) = text]
  ELSE [ok |-> FALSE, v |-> Null]

(***************************************************************************)
(* LLMRequest (llm_utils.rs).  A call either returns Ok(text), returns     *)
(* Err(text) or panics.                                                    *)
(***************************************************************************)
Ok(s) == [kind |-> "Ok", s |-> s]

Err(s) == [kind |-> "Err", s |-> s]

Panic(s) == [kind |-> "Panic", s |-> s]

NoResult == [kind |-> "None", s |-> <<>>]

MsgUnwrapNone == <<"u", "n", "w", "r", "a", "p">>

MsgSendFailed == <<"F", "a", "i", "l", "e", "d", " ", "t", "o", " ", "s", "e", "n", "d",
                   " ", "r", "e", "q", "u", "e", "s", "t">>

MsgKeyNotSet == <<"O", "P", "E", "N", "A", "I", "_", "A", "P", "I", "_", "K", "E", "Y",
                  " ", "n", "o", "t", " ", "s", "e", "t">>

MsgUrlNotSet == <<"O", "P", "E", "N", "A", "I", "_", "A", "P", "I", "_", "U", "R", "L",
                  " ", "n", "o", "t", " ", "s", "e", "t">>

MsgTransport == <<"r", "e", "q", "w", "e", "s", "t">>

MsgNoVecdb == <<"f", "a", "i", "l", "e", "d", " ", "t", "o", " ", "g", "e", "t", " ",
                "v", "e", "c", "d", "b", " ", "s", "t", "a", "t", "e">>

DefaultMaxTokens == 200

DefaultTemperature == 10

PipelineMaxTokens == 800

PipelineTemperature == 5

\* LLMRequest::builder() ... build(): unset max_tokens and temperature take the defaults
LLMRequestDefault(messages, api_url, api_key) ==
  [messages |-> messages, max_tokens |-> DefaultMaxTokens,
   temperature |-> DefaultTemperature, api_url |-> api_url, api_key |-> api_key]

\* LLMRequest::extract_response: Ok(text) or a panic of the unwrap
extract_response(response) ==
  LET resp_json == from_str(response)
  IN  IF ~resp_json.ok THEN Panic(MsgUnwrapNone)
      ELSE Ok(ValueToString(
                IndexKey(IndexKey(IndexPos(IndexKey(resp_json.v, K_choices), 0),
                                  K_message), K_content)))

RECURSIVE json_messages(_)
RECURSIVE json_messages_swapped(_)
\* the messages array with each pair's content under role and its role under
\* content
json_messages_swapped(messages) ==
  IF messages = <<>> THEN <<>>
  ELSE << JObject(<< <<K_content, JString(messages[1][1])>>,
                     <<K_role, JString(messages[1][2])>> >>) >>
         \o json_messages_swapped(Tail(messages))

\* the "messages" array of get_json_request: one object per (role, content)
json_messages(messages) ==
  IF messages = <<>> THEN <<>>
  ELSE << JObject(<< <<K_content, JString(messages[1][2])>>,
                     <<K_role, JString(messages[1][1])>> >>) >>
         \o json_messages(Tail(messages))

\* LLMRequest::get_json_request
get_json_request(self) ==
  JObject(<< <<K_max_tokens, JNumber(self.max_tokens)>>,
             <<K_messages, JArray(json_messages(self.messages))>>,
             <<K_temperature, JFloat(self.temperature)>> >>)

\* LLMRequest::send, given what the transport and the backend do
send(self, reply) ==
  IF reply.net = "err" THEN Err(MsgTransport)
  ELSE IF reply.net = "body_err" THEN Err(MsgTransport)
  ELSE extract_response(reply.body)

(***************************************************************************)
(* The prompt (main.rs, generate_prompt_msgs and create_prompt).           *)
(***************************************************************************)
\* the grave accent character, which a TLA+ string literal cannot hold
Grave == "GRAVE"

SysPrompt ==
  <<
     " ", "\n", " ", " ", " ", " ", "Y", "o", "u", " ", "a", "r", "e", " ", "a", "n",
     " ", "A", "I", " ", "a", "s", "s", "i", "s", "t", "a", "n", "t", " ", "t", "h",
     "a", "t", " ", "a", "n", "s", "w", "e", "r", "s", " ", "q", "u", "e", "s", "t",
     "i", "o", "n", "s", " ", "a", "b", "o", "u", "t", " ", "d", "a", "t", "a", "b",
     "a", "s", "e", " ", "s", "c", "h", "e", "m", "a", "s", " ", "a", "n", "d", " ",
     "t", "a", "b", "l", "e", "s", ".", " ", "\n", " ", " ", " ", " ", "Y", "o", "u",
     "r", " ", "a", "n", "s", "w", "e", "r", " ", "a", "l", "w", "a", "y", "s", " ",
     "i", "n", "c", "l", "u", "d", "e", "s", " ", "i", "n", "f", "o", "r", "m", "a",
     "t", "i", "o", "n", " ", "a", "b", "o", "u", "t", " ", "t", "h", "e", " ", "r",
     "e", "l", "e", "v", "a", "n", "t", " ", "t", "a", "b", "l", "e", "s", " ", "a",
     "n", "d", " ", "t", "h", "e", "i", "r", " ", "p", "u", "r", "p", "o", "s", "e",
     ".", " ", "\n", " ", " ", " ", " ", "W", "h", "e", "n", " ", "y", "o", "u", " ",
     "a", "d", "d", " ", "a", " ", "q", "u", "e", "r", "y", " ", "t", "o", " ", "y",
     "o", "u", "r", " ", "a", "n", "s", "w", "e", "r", ",", " ", "a", "l", "w", "a",
     "y", "s", " ", "m", "a", "r", "k", " ", "i", "t", " ", "w", "i", "t", "h", " ",
     Grave, Grave, Grave, "s", "q", "l", ".", "\n", " ", " ", " ", " ", "A", "l", "w", "a",
     "y", "s", " ", "u", "s", "e", " ", "n", "u", "m", "b", "e", "r", "s", " ", "w",
     "h", "e", "n", " ", "e", "n", "u", "m", "e", "r", "a", "t", "i", "n", "g", " ",
     "i", "t", "e", "m", "s", ".", "\n", " ", " ", " ", " "
  >>

UserPrefix ==
  <<
     "\n", " ", " ", " ", " ", " ", " ", " ", " ", "H", "e", "r", "e", " ", "a", "r",
     "e", " ", "t", "h", "e", " ", "t", "a", "b", "l", "e", "s", " ", "i", "n", " ",
     "o", "u", "r", " ", "d", "a", "t", "a", "b", "a", "s", "e", ":", "\n", " ", " ",
     " ", " ", " ", " ", " ", " "
  >>

UserMiddle ==
  <<
     "\n", "\n", " ", " ", " ", " ", " ", " ", " ", " ", "B", "a", "s", "e", "d", " ",
     "o", "n", " ", "t", "h", "e", " ", "t", "a", "b", "l", "e", "s", " ", "i", "n",
     " ", "o", "u", "r", " ", "d", "a", "t", "a", "b", "a", "s", "e", " ", "g", "i",
     "v", "e", "n", " ", "a", "b", "o", "v", "e", ",", " ", "p", "l", "e", "a", "s",
     "e", " ", "a", "n", "s", "w", "e", "r", " ", "t", "h", "e", " ", "f", "o", "l",
     "l", "o", "w", "i", "n", "g", " ", "q", "u", "e", "s", "t", "i", "o", "n", ":",
     "\n", " ", " ", " ", " ", " ", " ", " ", " "
  >>

UserSuffix ==
  <<
     "\n", " ", " ", " ", " ", " ", " ", " ", " "
  >>

RECURSIVE JoinLines(_)
\* Vec<String>::join("\n")
JoinLines(strs) ==
  IF strs = <<>> THEN <<>>
  ELSE IF Len(strs) = 1 THEN strs[1]
  ELSE strs[1] \o <<"\n">> \o JoinLines(Tail(strs))

\* create_prompt: the system message, then the user message
create_prompt(context, query) ==
  << <<RoleSystem, SysPrompt>>,
     <<RoleUser, UserPrefix \o context \o UserMiddle \o query \o UserSuffix>> >>

\* generate_prompt_msgs joining the rows' contents last row first
generate_prompt_msgs_reversed(query, context_tables) ==
  LET n == Len(context_tables)
      context_str == JoinLines([i \in 1..n |-> context_tables[n + 1 - i].content])
  IN  create_prompt(context_str, query)

\* generate_prompt_msgs: never fails
generate_prompt_msgs(query, context_tables) ==
  LET context_str == JoinLines([i \in 1..Len(context_tables) |-> context_tables[i].content])
  IN  create_prompt(context_str, query)

(***************************************************************************)
(* Vectors.  A vector is held as its dimension and its leading components, *)
(* all later components being zero; a component is a fixed-point number in *)
(* thousandths.  The embedding model, the vector operations and the vector *)
(* store are the modules embedder, vectors and vecdb, which main.rs calls. *)
(***************************************************************************)
\* the dimension main passes to VecDB::create_or_open
IndexDimension == 384

\* the dimension of an embedding model that does not fit the index
OtherDimension == 10

\* the dimensions an embedding model may have
EmbedDimensions == {IndexDimension, OtherDimension}

\* the embedding model: one vector per text, a function of the text and of the
\* model's dimension (the zero vector for the empty text)
Embed(text, dim) ==
  [dim |-> dim, head |-> <<3000 * Len(text), 4000 * Len(text)>>]

RECURSIVE DotFrom(_, _, _)
\* the sum of a[j] * b[j] over the leading components from i on
DotFrom(a, b, i) ==
  IF i > Len(a) \/ i > Len(b) THEN 0 ELSE a[i] * b[i] + DotFrom(a, b, i + 1)

Dot(a, b) == DotFrom(a.head, b.head, 1)

RECURSIVE ISqrtIn(_, _, _)
\* the integer square root of n, known to lie in lo..hi
ISqrtIn(n, lo, hi) ==
  IF lo = hi THEN lo
  ELSE LET mid == (lo + hi + 1) \div 2
       IN  IF mid * mid <= n THEN ISqrtIn(n, mid, hi) ELSE ISqrtIn(n, lo, mid - 1)

ISqrt(n) == ISqrtIn(n, 0, 46340)

\* VectorsOps::normalize: v / ||v||, the zero vector unchanged
normalize(v) ==
  LET norm == ISqrt(Dot(v, v))
  IN  IF norm = 0 THEN v
      ELSE [dim |-> v.dim,
            head |-> [i \in 1..Len(v.head) |-> (v.head[i] * 1000) \div norm]]

NoVector == [dim |-> 0, head |-> <<>>]

RECURSIVE InsertRow(_, _, _)
\* row put into rows (ordered by falling similarity to q) behind its equals
InsertRow(rows, row, q) ==
  IF rows = <<>> THEN <<row>>
  ELSE IF Dot(row.vector, q) > Dot(rows[1].vector, q)
       THEN <<row>> \o rows
       ELSE <<rows[1]>> \o InsertRow(Tail(rows), row, q)

RECURSIVE RankRows(_, _, _)
\* the first n rows, ordered by falling similarity to q, ties in insertion order
RankRows(rows, n, q) ==
  IF n = 0 THEN <<>> ELSE InsertRow(RankRows(rows, n - 1, q), rows[n], q)

MsgDimension == <<"d", "i", "m", "e", "n", "s", "i", "o", "n">>

MsgStorage == <<"s", "t", "o", "r", "a", "g", "e">>

MsgEmbedding == <<"e", "m", "b", "e", "d", "d", "i", "n", "g">>

MsgDecode == <<"d", "e", "c", "o", "d", "e">>

OkRows(rows) == [kind |-> "Ok", rows |-> rows]

\* VecDB::find_similar_x: the k rows most similar to query, most similar first;
\* fails on a query of another dimension and when the store is unavailable
find_similar_x(db, query, k, available) ==
  IF ~available THEN Err(MsgStorage)
  ELSE IF query.dim # db.dim THEN Err(MsgDimension)
  ELSE LET ranked == RankRows(db.rows, Len(db.rows), query)
       IN  OkRows(SubSeq(ranked, 1, IF k < Len(ranked) THEN k ELSE Len(ranked)))

\* serde_arrow::from_record_batch into Vec<TableContent>: every row needs a
\* content that is a string
from_record_batch(tables) ==
  IF \A i \in 1..Len(tables) : tables[i].content.t = "String"
  THEN OkRows([i \in 1..Len(tables) |-> [content |-> tables[i].content.s]])
  ELSE Err(MsgDecode)

UnitVector(j) ==
  [dim |-> IndexDimension, head |-> [i \in 1..j |-> IF i = j THEN 1000 ELSE 0]]

\* the collections that may be stored under the path main opens
Collections ==
  { [dim |-> IndexDimension,
     rows |-> << [content |-> JString(<<"o", "r", "d", "e", "r", "s">>),
                  vector |-> UnitVector(1)],
                 [content |-> JString(<<"c", "u", "s", "t", "o", "m", "e", "r", "s">>),
                  vector |-> UnitVector(2)] >>],
    [dim |-> IndexDimension,
     rows |-> << [content |-> Null, vector |-> UnitVector(1)] >>] }

NoCollection == [dim |-> 0, rows |-> <<>>]

\* VecDB::create_or_open: the stored collection, or an error
create_or_open(stored, readable) ==
  IF readable THEN [kind |-> "Ok", db |-> stored] ELSE Err(MsgStorage)

\* the embedding model behind embedder::get_model_reference: it may be
\* unavailable, and it has one of the dimensions
EmbedModels ==
  { [available |-> FALSE, dim |-> IndexDimension] }
    \cup [available : {TRUE}, dim : EmbedDimensions]

OkVectors(vectors) == [kind |-> "Ok", vectors |-> vectors]

\* get_model_reference and embed_multiple: one vector per text, in order
embed_multiple(model, texts) ==
  IF ~model.available THEN Err(MsgEmbedding)
  ELSE OkVectors([i \in 1..Len(texts) |-> Embed(texts[i], model.dim)])

OkVector(vector) == [kind |-> "Ok", vector |-> vector]

\* embed_and_normalize_query returning the embedding as the model gave it
embed_without_normalize(model, query) ==
  LET prompt_embedding == embed_multiple(model, <<query>>)
  IN  IF prompt_embedding.kind = "Err" THEN prompt_embedding
      ELSE OkVector(prompt_embedding.vectors[1])

\* embed_and_normalize_query, given the embedding model
embed_and_normalize_query(model, query) ==
  LET prompt_embedding == embed_multiple(model, <<query>>)
  IN  IF prompt_embedding.kind = "Err" THEN prompt_embedding
      ELSE OkVector(normalize(prompt_embedding.vectors[1]))

(***************************************************************************)
(* The state of the process.                                               *)
(***************************************************************************)
VARIABLES
  mainPc,   \* where main is: "init_vecdb", "set", "bind", "serve", "exited", "panicked"
  vecdb,    \* main's local vecdb, the result of init_vecdb
  env,      \* the environment variables OPENAI_API_KEY and OPENAI_API_URL
  VECDB,    \* the static OnceCell holding the shared index handle
  readers,  \* the requests holding a read guard of the handle's RwLock
  writer,   \* whether a write guard of the handle's RwLock is held
  req,      \* per request: the handler's position and locals
  call      \* a call of one of the program's functions on its own: its
            \* arguments, and its result once it has returned

vars == <<mainPc, vecdb, env, VECDB, readers, writer, req, call>>

\* the queries a caller may post
Queries == { <<>>, <<"h", "i">> }

\* the text the /test handler embeds
Hello == <<"h", "e", "l", "l", "o">>

AllGood == <<"a", "l", "l", " ", "g", "o", "o", "d", "!">>

ApiKey == <<"k", "e", "y">>

ApiUrl == <<"u", "r", "l">>

Unset == [set |-> FALSE, value |-> <<>>]

SetTo(value) == [set |-> TRUE, value |-> value]

NoReply == [net |-> "none", status |-> 0, body |-> <<>>]

NoResponse == [sent |-> FALSE, status |-> 0, body |-> <<>>]

NoLLMRequest ==
  [messages |-> <<>>, max_tokens |-> 0, temperature |-> 0, api_url |-> <<>>,
   api_key |-> <<>>]

\* a request not yet accepted.  pc is the call in progress: "Embedding",
\* "ReadLock", "FindSimilar", "LLMCall" in /generate, "T_ReadLock", "T_Embedding",
\* "T_FindSimilar" in /test, and "Responded" or "Panicked" at the end.  stages
\* lists the pipeline stages entered, failed names the stage whose collaborator
\* returned an error, the _calls fields count the calls made, reply is what the
\* LLM backend did and sent what request.send() returned.
NoRequest ==
  [kind |-> "none", pc |-> "idle", query |-> <<>>, query_vec |-> NoVector,
   num_tables |-> 0, request |-> NoLLMRequest, reply |-> NoReply,
   sent |-> NoResult, result |-> NoResult, response |-> NoResponse, stages |-> <<>>,
   failed |-> "none", embed_calls |-> 0, find_calls |-> 0, llm_calls |-> 0]

\* rec with the fields of upd replaced
Merge(rec, upd) ==
  [f \in DOMAIN rec |-> IF f \in DOMAIN upd THEN upd[f] ELSE rec[f]]

\* no function is called on its own while the server runs
NoCall == [op |-> "none"]

Init ==
  /\ mainPc = "init_vecdb"
  /\ vecdb = NoCollection
  /\ env \in [OPENAI_API_KEY : {Unset, SetTo(ApiKey)},
              OPENAI_API_URL : {Unset, SetTo(ApiUrl)}]
  /\ VECDB = [set |-> FALSE, db |-> NoCollection]
  /\ readers = {}
  /\ writer = FALSE
  /\ req = [r \in Requests |-> NoRequest]
  /\ call = NoCall

(***************************************************************************)
(* main (main.rs 24-51).                                                   *)
(***************************************************************************)
\* main going on to VECDB.set after init_vecdb failed, with no collection
InitVecdbErrorIgnored ==
  /\ mainPc = "init_vecdb"
  /\ \E stored \in Collections, readable \in BOOLEAN :
       LET opened == create_or_open(stored, readable)
       IN  /\ vecdb' = IF opened.kind = "Ok" THEN opened.db ELSE NoCollection
           /\ mainPc' = "set"
  /\ UNCHANGED <<env, VECDB, readers, writer, req, call>>

\* init_vecdb(...).await?: the opened collection, or main returns the error
InitVecdb ==
  /\ mainPc = "init_vecdb"
  /\ \E stored \in Collections, readable \in BOOLEAN :
       LET opened == create_or_open(stored, readable)
       IN  IF opened.kind = "Ok"
           THEN /\ vecdb' = opened.db
                /\ mainPc' = "set"
           ELSE /\ vecdb' = vecdb
                /\ mainPc' = "exited"
  /\ UNCHANGED <<env, VECDB, readers, writer, req, call>>

\* OnceCell::set: the value is stored only in an empty cell
OnceCellSet(cell, value) ==
  IF cell.set THEN cell ELSE [set |-> TRUE, db |-> value]

\* main going on to bind without VECDB.set(vecdb)
PublishVecdbSkipped ==
  /\ mainPc = "set"
  /\ mainPc' = "bind"
  /\ UNCHANGED <<vecdb, VECDB, env, readers, writer, req, call>>

\* VECDB.set(vecdb)
PublishVecdb ==
  /\ mainPc = "set"
  /\ VECDB' = OnceCellSet(VECDB, vecdb)
  /\ vecdb' = NoCollection
  /\ mainPc' = "bind"
  /\ UNCHANGED <<env, readers, writer, req, call>>

\* TcpListener::bind(...).await.unwrap() succeeds and axum::serve starts
Bind ==
  /\ mainPc = "bind"
  /\ mainPc' = "serve"
  /\ UNCHANGED <<vecdb, env, VECDB, readers, writer, req, call>>

\* TcpListener::bind(...).await.unwrap() panics
BindFails ==
  /\ mainPc = "bind"
  /\ mainPc' = "panicked"
  /\ UNCHANGED <<vecdb, env, VECDB, readers, writer, req, call>>

(***************************************************************************)
(* POST /generate: generate_response and process_query (main.rs 80-151).   *)
(* A request's pc names the call the handler's task waits for; an action   *)
(* is the code the task runs from the return of one such call to the start *)
(* of the next.                                                            *)
(***************************************************************************)
\* requests are numbered in the order the server accepts them
NextToAccept(r) ==
  /\ mainPc = "serve"
  /\ req[r].kind = "none"
  /\ \A q \in Requests : q < r => req[q].kind # "none"

\* the match in generate_response
into_response(result) ==
  IF result.kind = "Ok" THEN [sent |-> TRUE, status |-> 200, body |-> result.s]
  ELSE [sent |-> TRUE, status |-> 500, body |-> result.s]

\* process_query returns Err(e) from a ?, and generate_response answers
Fail(rec, stage, e) ==
  Merge(rec, [pc |-> "Responded", failed |-> stage, result |-> Err(e),
              response |-> into_response(Err(e)), query |-> <<>>,
              query_vec |-> NoVector, stages |-> Append(rec.stages, "Failed")])

\* the handler's task panics: nothing is answered
Unwind(rec, msg) ==
  Merge(rec, [pc |-> "Panicked", result |-> Panic(msg), query |-> <<>>,
              query_vec |-> NoVector, request |-> NoLLMRequest,
              stages |-> Append(rec.stages, "Panicked")])

\* generate_response(body) calls process_query(body), which calls
\* embed_and_normalize_query(query.clone())
AcceptGenerate(r) ==
  /\ NextToAccept(r)
  /\ \E body \in Queries :
       req' = [req EXCEPT ![r] =
                 Merge(@, [kind |-> "generate", pc |-> "Embedding", query |-> body,
                           stages |-> <<"Embedding">>])]
  /\ UNCHANGED <<mainPc, vecdb, env, VECDB, readers, writer, call>>

\* embed_and_normalize_query(...)? returns; process_query calls
\* get_relevant_context_tables(embedding, 20), which waits for the read guard
EmbedReturn(r) ==
  /\ req[r].pc = "Embedding"
  /\ \E model \in EmbedModels :
       LET embedding == embed_and_normalize_query(model, req[r].query)
       IN  req' = [req EXCEPT ![r] =
                     IF embedding.kind = "Err"
                     THEN Merge(Fail(@, "Embedding", embedding.s),
                                [embed_calls |-> @.embed_calls + 1])
                     ELSE Merge(@, [pc |-> "ReadLock", query_vec |-> embedding.vector,
                                    num_tables |-> 20,
                                    embed_calls |-> @.embed_calls + 1,
                                    stages |-> @.stages \o <<"Normalizing", "Retrieving">>])]
  /\ UNCHANGED <<mainPc, vecdb, env, VECDB, readers, writer, call>>

\* a handler asking for the write guard, vecdb.write().await, which is granted
\* when no guard at all is held
AcquireWrite(r) ==
  /\ req[r].pc \in {"ReadLock", "T_ReadLock"}
  /\ IF ~VECDB.set
     THEN /\ req' = [req EXCEPT ![r] = Unwind(@, MsgNoVecdb)]
          /\ writer' = writer
     ELSE /\ ~writer /\ readers = {}
          /\ writer' = TRUE
          /\ req' = [req EXCEPT ![r] =
                       Merge(@, [pc |-> IF @.kind = "generate" THEN "FindSimilar"
                                        ELSE "T_Embedding"])]
  /\ UNCHANGED <<mainPc, vecdb, env, VECDB, readers, call>>

\* get_vecdb() and vecdb.read().await, in get_relevant_context_tables and in
\* test_service: get_vecdb panics on an empty cell, the read guard is granted
\* when no write guard is held
AcquireRead(r) ==
  /\ req[r].pc \in {"ReadLock", "T_ReadLock"}
  /\ IF ~VECDB.set
     THEN /\ req' = [req EXCEPT ![r] = Unwind(@, MsgNoVecdb)]
          /\ readers' = readers
     ELSE /\ ~writer
          /\ readers' = readers \cup {r}
          /\ req' = [req EXCEPT ![r] =
                       Merge(@, [pc |-> IF @.kind = "generate" THEN "FindSimilar"
                                        ELSE "T_Embedding"])]
  /\ UNCHANGED <<mainPc, vecdb, env, VECDB, writer, call>>

\* LLMRequest::builder() with every field given
LLMRequestBuild(messages, api_key, api_url, max_tokens, temperature) ==
  [messages |-> messages, max_tokens |-> max_tokens, temperature |-> temperature,
   api_url |-> api_url, api_key |-> api_key]

\* generate_response_llm building its request without max_tokens and
\* temperature, which then take the builder's defaults
StartLLMWithDefaults(rec, messages, environment) ==
  IF ~environment.OPENAI_API_KEY.set THEN Unwind(rec, MsgKeyNotSet)
  ELSE IF ~environment.OPENAI_API_URL.set THEN Unwind(rec, MsgUrlNotSet)
  ELSE Merge(rec, [pc |-> "LLMCall",
                   request |-> LLMRequestDefault(messages,
                                                 environment.OPENAI_API_URL.value,
                                                 environment.OPENAI_API_KEY.value),
                   query |-> <<>>, query_vec |-> NoVector,
                   llm_calls |-> rec.llm_calls + 1])

\* generate_response_llm up to request.send(): the two std::env::var(...)
\* .expect(...) and the builder
StartLLM(rec, messages, environment) ==
  IF ~environment.OPENAI_API_KEY.set THEN Unwind(rec, MsgKeyNotSet)
  ELSE IF ~environment.OPENAI_API_URL.set THEN Unwind(rec, MsgUrlNotSet)
  ELSE Merge(rec, [pc |-> "LLMCall",
                   request |-> LLMRequestBuild(messages,
                                               environment.OPENAI_API_KEY.value,
                                               environment.OPENAI_API_URL.value,
                                               PipelineMaxTokens, PipelineTemperature),
                   query |-> <<>>, query_vec |-> NoVector,
                   llm_calls |-> rec.llm_calls + 1])

\* get_relevant_context_tables answering a failed retrieval with no rows, so
\* that process_query goes on to the LLM without context
FindSimilarReturnDegraded(r) ==
  /\ req[r].pc = "FindSimilar"
  /\ \E available \in BOOLEAN :
       LET tables == find_similar_x(VECDB.db, req[r].query_vec, req[r].num_tables,
                                    available)
           table_contents == IF tables.kind = "Ok" THEN from_record_batch(tables.rows)
                             ELSE tables
           rows == IF table_contents.kind = "Err" THEN <<>> ELSE table_contents.rows
       IN  req' = [req EXCEPT ![r] =
                     StartLLM(Merge(@, [find_calls |-> @.find_calls + 1,
                                        failed |-> IF table_contents.kind = "Err"
                                                   THEN "Retrieving" ELSE @.failed,
                                        stages |-> @.stages \o
                                          <<"PromptBuilding", "Generating">>]),
                              generate_prompt_msgs(@.query, rows), env)]
  /\ readers' = readers \ {r}
  /\ UNCHANGED <<mainPc, vecdb, env, VECDB, writer, call>>

\* get_relevant_context_tables keeping the read guard when it returns an
\* error
FindSimilarReturnLeaking(r) ==
  /\ req[r].pc = "FindSimilar"
  /\ \E available \in BOOLEAN :
       LET tables == find_similar_x(VECDB.db, req[r].query_vec, req[r].num_tables,
                                    available)
           table_contents == IF tables.kind = "Ok" THEN from_record_batch(tables.rows)
                             ELSE tables
       IN  IF table_contents.kind = "Err"
           THEN /\ req' = [req EXCEPT ![r] =
                             Merge(Fail(@, "Retrieving", table_contents.s),
                                   [find_calls |-> @.find_calls + 1])]
                /\ readers' = readers
           ELSE /\ req' = [req EXCEPT ![r] =
                             StartLLM(Merge(@, [find_calls |-> @.find_calls + 1,
                                                stages |-> @.stages \o
                                                  <<"PromptBuilding", "Generating">>]),
                                      generate_prompt_msgs(@.query, table_contents.rows),
                                      env)]
                /\ readers' = readers \ {r}
  /\ UNCHANGED <<mainPc, vecdb, env, VECDB, writer, call>>

\* vecdb.find_similar_x(query_vec, num_tables).await? returns, then
\* serde_arrow::from_record_batch(&tables)?; the read guard is dropped when
\* get_relevant_context_tables returns.  process_query goes on with
\* generate_prompt_msgs(query, context_tables) and generate_response_llm
FindSimilarReturn(r) ==
  /\ req[r].pc = "FindSimilar"
  /\ \E available \in BOOLEAN :
       LET tables == find_similar_x(VECDB.db, req[r].query_vec, req[r].num_tables,
                                    available)
           table_contents == IF tables.kind = "Ok" THEN from_record_batch(tables.rows)
                             ELSE tables
       IN  req' = [req EXCEPT ![r] =
                     IF table_contents.kind = "Err"
                     THEN Merge(Fail(@, "Retrieving", table_contents.s),
                                [find_calls |-> @.find_calls + 1])
                     ELSE StartLLM(Merge(@, [find_calls |-> @.find_calls + 1,
                                             stages |-> @.stages \o
                                               <<"PromptBuilding", "Generating">>]),
                                   generate_prompt_msgs(@.query, table_contents.rows),
                                   env)]
  /\ readers' = readers \ {r}
  /\ UNCHANGED <<mainPc, vecdb, env, VECDB, writer, call>>

\* request.send().await.expect("Failed to send request"): an Err panics
expect_send(sent) ==
  IF sent.kind = "Err" THEN Panic(MsgSendFailed) ELSE sent

\* generate_response_llm sending its request a second time when the first
\* send failed
LLMReturnRetrying(r) ==
  /\ req[r].pc = "LLMCall"
  /\ \E reply \in LLMReplies :
       LET sent == send(req[r].request, reply)
           response == expect_send(sent)
       IN  req' = [req EXCEPT ![r] =
                     IF sent.kind = "Err" /\ @.llm_calls < 2
                     THEN Merge(@, [llm_calls |-> @.llm_calls + 1])
                     ELSE IF response.kind = "Panic"
                     THEN Merge(Unwind(@, response.s), [reply |-> reply, sent |-> sent])
                     ELSE Merge(@, [pc |-> "Responded", reply |-> reply, sent |-> sent,
                                    result |-> Ok(response.s),
                                    response |-> into_response(Ok(response.s)),
                                    request |-> NoLLMRequest,
                                    stages |-> Append(@.stages, "Done")])]
  /\ UNCHANGED <<mainPc, vecdb, env, VECDB, readers, writer, call>>

\* a panic of generate_response_llm that aborts the process instead of
\* unwinding the handler's task: the requests in flight end with it
LLMReturnAborting(r) ==
  /\ req[r].pc = "LLMCall"
  /\ \E reply \in LLMReplies :
       LET sent == send(req[r].request, reply)
           response == expect_send(sent)
       IN  IF response.kind = "Panic"
           THEN /\ req' = [q \in Requests |->
                             IF q = r
                             THEN Merge(Unwind(req[q], response.s),
                                        [reply |-> reply, sent |-> sent])
                             ELSE IF req[q].kind # "none"
                                     /\ req[q].pc \notin {"Responded", "Panicked"}
                             THEN Unwind(req[q], response.s)
                             ELSE req[q]]
                /\ readers' = {}
           ELSE /\ req' = [req EXCEPT ![r] =
                             Merge(@, [pc |-> "Responded", reply |-> reply,
                                       sent |-> sent, result |-> Ok(response.s),
                                       response |-> into_response(Ok(response.s)),
                                       request |-> NoLLMRequest,
                                       stages |-> Append(@.stages, "Done")])]
                /\ readers' = readers
  /\ UNCHANGED <<mainPc, vecdb, env, VECDB, writer, call>>

\* the LLM backend answers: send returns, generate_response_llm returns its
\* text or panics, process_query returns Ok(response) and generate_response
\* answers
LLMReturn(r) ==
  /\ req[r].pc = "LLMCall"
  /\ \E reply \in LLMReplies :
       LET sent == send(req[r].request, reply)
           response == expect_send(sent)
       IN  req' = [req EXCEPT ![r] =
                     IF response.kind = "Panic"
                     THEN Merge(Unwind(@, response.s), [reply |-> reply, sent |-> sent])
                     ELSE Merge(@, [pc |-> "Responded", reply |-> reply, sent |-> sent,
                                    result |-> Ok(response.s),
                                    response |-> into_response(Ok(response.s)),
                                    request |-> NoLLMRequest,
                                    stages |-> Append(@.stages, "Done")])]
  /\ UNCHANGED <<mainPc, vecdb, env, VECDB, readers, writer, call>>

(***************************************************************************)
(* GET /test: test_service (main.rs 64-78).                                *)
(***************************************************************************)
AcceptTest(r) ==
  /\ NextToAccept(r)
  /\ req' = [req EXCEPT ![r] =
               Merge(@, [kind |-> "test", pc |-> "T_ReadLock", query |-> Hello])]
  /\ UNCHANGED <<mainPc, vecdb, env, VECDB, readers, writer, call>>

\* get_model_reference().unwrap(), embed_multiple(...).unwrap() and normalize,
\* with the read guard held; a panic drops the guard
TestEmbedReturn(r) ==
  /\ req[r].pc = "T_Embedding"
  /\ \E model \in EmbedModels :
       LET prompt_embedding == embed_multiple(model, <<req[r].query>>)
       IN  IF prompt_embedding.kind = "Err"
           THEN /\ req' = [req EXCEPT ![r] =
                             Merge(Unwind(@, MsgUnwrapNone),
                                   [failed |-> "Embedding", stages |-> <<>>,
                                    embed_calls |-> @.embed_calls + 1])]
                /\ readers' = readers \ {r}
           ELSE /\ req' = [req EXCEPT ![r] =
                             Merge(@, [pc |-> "T_FindSimilar",
                                       query_vec |-> normalize(prompt_embedding.vectors[1]),
                                       num_tables |-> 10,
                                       embed_calls |-> @.embed_calls + 1])]
                /\ readers' = readers
  /\ UNCHANGED <<mainPc, vecdb, env, VECDB, writer, call>>

\* the match on find_similar_x's result in test_service
test_response(tables) ==
  IF tables.kind = "Ok" THEN [sent |-> TRUE, status |-> 200, body |-> AllGood]
  ELSE [sent |-> TRUE, status |-> 500, body |-> tables.s]

\* vecdb.find_similar_x(prompt_embedding_norm, 10).await returns and
\* test_service answers; the read guard is dropped on return
TestFindReturn(r) ==
  /\ req[r].pc = "T_FindSimilar"
  /\ \E available \in BOOLEAN :
       LET tables == find_similar_x(VECDB.db, req[r].query_vec, req[r].num_tables,
                                    available)
       IN  req' = [req EXCEPT ![r] =
                     Merge(@, [pc |-> "Responded", query |-> <<>>,
                               query_vec |-> NoVector,
                               failed |-> IF tables.kind = "Err" THEN "Retrieving"
                                          ELSE @.failed,
                               find_calls |-> @.find_calls + 1,
                               response |-> test_response(tables)])]
  /\ readers' = readers \ {r}
  /\ UNCHANGED <<mainPc, vecdb, env, VECDB, writer, call>>

Next ==
  \/ InitVecdb
  \/ PublishVecdb
  \/ Bind
  \/ BindFails
  \/ \E r \in Requests : AcceptGenerate(r)
  \/ \E r \in Requests : EmbedReturn(r)
  \/ \E r \in Requests : AcquireRead(r)
  \/ \E r \in Requests : FindSimilarReturn(r)
  \/ \E r \in Requests : LLMReturn(r)
  \/ \E r \in Requests : AcceptTest(r)
  \/ \E r \in Requests : TestEmbedReturn(r)
  \/ \E r \in Requests : TestFindReturn(r)

Spec == Init /\ [][Next]_vars

(***************************************************************************)
(* The prompt builder and the LLM request's JSON body, each called on its  *)
(* own with arguments of bounded size (as test_get_json_request calls      *)
(* get_json_request); the server does not run in these behaviours.         *)
(***************************************************************************)
\* the most rows a context list has
MaxContexts == 2

\* the most messages an LLM request has
MaxMessages == 2

\* the sequences over S of length at most n
SeqsUpTo(S, n) == UNION { [1..k -> S] : k \in 0..n }

\* the contents of rows (TableContent.content): t1, t2 and the empty string
ContextContents == { <<"t", "1">>, <<"t", "2">>, <<>> }

ContextLists == SeqsUpTo([content : ContextContents], MaxContexts)

\* the queries: those a caller may post, and one that is also a row's content
PromptQueries == Queries \cup { <<"t", "1">> }

\* (role, content) pairs
Messages ==
  { <<RoleSystem, <<"s">> >>, <<RoleUser, <<"h", "i">> >>,
    <<RoleUser, <<"a", "\"", "b">> >> }

MessageLists == SeqsUpTo(Messages, MaxMessages)

NoOut == [t |-> "none"]

\* the calls: generate_prompt_msgs(query, context_tables); the builder with
\* only messages, api_url and api_key given; get_json_request on a request
\* built as generate_response_llm builds it
FnCalls ==
  [op : {"generate_prompt_msgs"}, query : PromptQueries,
   context_tables : ContextLists, done : {FALSE}, out : {NoOut}]
  \cup [op : {"builder"}, messages : MessageLists, done : {FALSE}, out : {NoOut}]
  \cup { [op |-> "get_json_request", defaults |-> FALSE,
          self |-> LLMRequestBuild(messages, ApiKey, ApiUrl,
                                   PipelineMaxTokens, PipelineTemperature),
          done |-> FALSE, out |-> NoOut] : messages \in MessageLists }

FnInit ==
  /\ call \in FnCalls
  /\ mainPc = "none"
  /\ vecdb = NoCollection
  /\ env = [OPENAI_API_KEY |-> Unset, OPENAI_API_URL |-> Unset]
  /\ VECDB = [set |-> FALSE, db |-> NoCollection]
  /\ readers = {}
  /\ writer = FALSE
  /\ req = [r \in Requests |-> NoRequest]

\* generate_prompt_msgs(query, context_tables) returns
CallGeneratePromptMsgs ==
  /\ call.op = "generate_prompt_msgs" /\ ~call.done
  /\ call' = [call EXCEPT !.done = TRUE,
                          !.out = generate_prompt_msgs(call.query, call.context_tables)]
  /\ UNCHANGED <<mainPc, vecdb, env, VECDB, readers, writer, req>>

\* LLMRequest::builder().messages(..).api_url(..).api_key(..).build(); the
\* request is then asked for its JSON body
CallBuilder ==
  /\ call.op = "builder"
  /\ call' = [op |-> "get_json_request", defaults |-> TRUE,
              self |-> LLMRequestDefault(call.messages, ApiUrl, ApiKey),
              done |-> FALSE, out |-> NoOut]
  /\ UNCHANGED <<mainPc, vecdb, env, VECDB, readers, writer, req>>

\* self.get_json_request() returns
CallGetJsonRequest ==
  /\ call.op = "get_json_request" /\ ~call.done
  /\ call' = [call EXCEPT !.done = TRUE, !.out = get_json_request(call.self)]
  /\ UNCHANGED <<mainPc, vecdb, env, VECDB, readers, writer, req>>

FnNext ==
  \/ CallGeneratePromptMsgs
  \/ CallBuilder
  \/ CallGetJsonRequest

FnSpec == FnInit /\ [][FnNext]_vars

\* the server's behaviours together with the calls of the functions on their own
ProgramSpec == (Init \/ FnInit) /\ [][Next \/ FnNext]_vars

(***************************************************************************)
(* Properties.                                                             *)
(***************************************************************************)
Last(s) == s[Len(s)]

IsPrefix(s, t) == Len(s) <= Len(t) /\ SubSeq(t, 1, Len(s)) = s

Entered(r, stage) == \E i \in 1..Len(req[r].stages) : req[r].stages[i] = stage

Generate(r) == req[r].kind = "generate"

Finished(r) == req[r].pc \in {"Responded", "Panicked"}

\* choices[0].message.content of a document
ContentOf(v) ==
  IndexKey(IndexKey(IndexPos(IndexKey(v, K_choices), 0), K_message), K_content)

\* a body that is no JSON document, or one without a string at
\* choices[0].message.content
Malformed(body) ==
  LET parsed == from_str(body)
  IN  ~parsed.ok \/ ContentOf(parsed.v).t # "String"

\* the LLM call failed: no connection, no body, a status that is no success,
\* or a malformed body
LLMError(reply) ==
  \/ reply.net \in {"err", "body_err"}
  \/ reply.net = "ok" /\ (reply.status \notin 200..299 \/ Malformed(reply.body))

\* a stage of request r has failed
StageFailed(r) ==
  \/ req[r].failed # "none"
  \/ req[r].reply.net # "none" /\ LLMError(req[r].reply)

EnvComplete == env.OPENAI_API_KEY.set /\ env.OPENAI_API_URL.set

\* C1: a /generate request one of whose stages failed (embedding, retrieval or
\* the LLM call) ends in Failed(reason): process_query returns the error and no
\* answer is given.
C1_StageFailureEndsFailed ==
  \A r \in Requests :
    Generate(r) /\ Finished(r) /\ StageFailed(r)
      => /\ req[r].result.kind = "Err"
         /\ Last(req[r].stages) = "Failed"
         /\ req[r].response = [sent |-> TRUE, status |-> 500, body |-> req[r].result.s]

\* C2: a finished /generate request was answered, either 200 with the answer of
\* a pipeline that reached Done or 500 with the error of one that Failed.
\* Stated of a process whose configuration is complete, so that what refutes it
\* is a failure of a stage and not the missing configuration of C10.
C2_AnsweredWith200Or500 ==
  \A r \in Requests :
    EnvComplete /\ Generate(r) /\ Finished(r)
      => /\ req[r].response.sent
         /\ \/ /\ req[r].response.status = 200
               /\ Last(req[r].stages) = "Done"
               /\ req[r].result = Ok(req[r].response.body)
            \/ /\ req[r].response.status = 500
               /\ Last(req[r].stages) = "Failed"
               /\ req[r].result = Err(req[r].response.body)

\* C3: a request that holds the read guard is inside find_similar: none holds it
\* while its embedding call or its LLM call is in progress.
C3_GuardOnlyDuringFindSimilar ==
  \A r \in readers : req[r].pc \in {"FindSimilar", "T_FindSimilar"}

StageOrder ==
  <<"Embedding", "Normalizing", "Retrieving", "PromptBuilding", "Generating", "Done">>

\* C4: the stages of a /generate request are entered in the order Embedding,
\* Normalizing, Retrieving, PromptBuilding, Generating, Done, none skipped or
\* repeated, up to a failure; a stage is entered only after the calls of the
\* stages before it succeeded, once each; and the vector handed to the index
\* search is the normalized embedding of the request's own query.
C4_StagesInOrder ==
  \A r \in Requests :
    Generate(r) =>
      LET s == req[r].stages
      IN  /\ Len(s) >= 1
          /\ \/ IsPrefix(s, StageOrder)
             \/ /\ Last(s) \in {"Failed", "Panicked"}
                /\ IsPrefix(SubSeq(s, 1, Len(s) - 1), StageOrder)
          /\ req[r].pc = "Embedding" => s = <<"Embedding">> /\ req[r].embed_calls = 0
          /\ Entered(r, "Normalizing")
               => req[r].embed_calls = 1 /\ req[r].failed # "Embedding"
          /\ req[r].pc \in {"ReadLock", "FindSimilar"}
               => /\ Last(s) = "Retrieving"
                  /\ req[r].find_calls = 0
                  /\ \E dim \in EmbedDimensions :
                       req[r].query_vec = normalize(Embed(req[r].query, dim))
          /\ Entered(r, "PromptBuilding")
               => req[r].find_calls = 1 /\ req[r].failed = "none"
          /\ req[r].pc = "LLMCall" => Last(s) = "Generating" /\ req[r].llm_calls = 1
          /\ Entered(r, "Done") => req[r].llm_calls = 1 /\ req[r].sent.kind = "Ok"
          /\ req[r].embed_calls <= 1 /\ req[r].find_calls <= 1 /\ req[r].llm_calls <= 1

\* one request has gone through all six stages while another, with a query
\* whose embedding is not the zero vector, is searching the index
C4_Witness ==
  \E r, q \in Requests :
    /\ Generate(r) /\ req[r].stages = StageOrder
    /\ Generate(q) /\ req[q].pc = "FindSimilar" /\ req[q].query = <<"h", "i">>
    /\ req[q].query_vec = [dim |-> IndexDimension, head |-> <<600, 800>>]

\* C5: whenever the server serves, and whenever a handler runs (so whenever one
\* calls get_vecdb), the handle is set, to the collection opened at startup;
\* get_vecdb never panics; and a handle that is set is never replaced.
C5_HandleSetOnceBeforeServing ==
  /\ [](/\ mainPc = "serve" => VECDB.set
        /\ VECDB.set => VECDB.db \in Collections
        /\ \A r \in Requests :
             /\ req[r].kind # "none" => VECDB.set
             /\ req[r].result # Panic(MsgNoVecdb))
  /\ [][VECDB.set => VECDB' = VECDB]_vars

\* a handler has called get_vecdb and holds the read guard of the handle
C5_Witness ==
  \E r \in Requests : req[r].pc = "FindSimilar" /\ r \in readers /\ VECDB.set

\* C6: whenever the backend's body is malformed (no JSON, or no string at
\* choices[0].message.content), send returns an error: it neither panics nor
\* returns a text.
C6_MalformedBodyIsError ==
  \A r \in Requests :
    req[r].reply.net = "ok" /\ Malformed(req[r].reply.body) => req[r].sent.kind = "Err"

\* C7: whenever the backend answers with a status that is no success, send
\* returns an error, the pipeline does not end Done and retrieval ran once.
\* Stated of the bodies that are JSON documents, so that what refutes it is the
\* status and not the panic of C6 on a body that is no JSON.
C7_ErrorStatusIsError ==
  \A r \in Requests :
    /\ req[r].reply.net = "ok"
    /\ req[r].reply.status \notin 200..299
    /\ from_str(req[r].reply.body).ok
      => /\ req[r].sent.kind = "Err"
         /\ ~Entered(r, "Done")
         /\ req[r].find_calls = 1

\* C8: whenever the backend answers 200 with a well-formed document whose
\* content is s, send returns exactly s and the request is answered with s.
C8_ContentRoundTrip ==
  \A r \in Requests : \A s \in Contents :
    /\ req[r].reply.net = "ok"
    /\ req[r].reply.status = 200
    /\ req[r].reply.body = ValueToString(ChatCompletion(JString(s)))
    => /\ req[r].sent = Ok(s)
       /\ req[r].response = [sent |-> TRUE, status |-> 200, body |-> s]

\* C9: a /generate request whose retrieval failed (find_similar_x or the
\* decoding of its rows) is answered 500 with the error and makes no LLM call;
\* a request that makes the LLM call has had its one embedding call and its one
\* index search succeed.
C9_NoLLMCallAfterFailedRetrieval ==
  \A r \in Requests :
    Generate(r) =>
      /\ req[r].failed = "Retrieving"
           => /\ req[r].llm_calls = 0
              /\ ~Entered(r, "Generating")
              /\ req[r].pc = "Responded"
              /\ req[r].result.kind = "Err"
              /\ req[r].response = [sent |-> TRUE, status |-> 500,
                                    body |-> req[r].result.s]
      /\ req[r].llm_calls > 0
           => /\ req[r].failed = "none"
              /\ req[r].embed_calls = 1
              /\ req[r].find_calls = 1
              /\ Entered(r, "PromptBuilding")

\* one request failed on a query vector of the wrong dimension, another on
\* rows that cannot be decoded
C9_Witness ==
  \E r, q \in Requests :
    /\ Generate(r) /\ req[r].failed = "Retrieving" /\ req[r].result = Err(MsgDimension)
    /\ Generate(q) /\ req[q].failed = "Retrieving" /\ req[q].result = Err(MsgDecode)

\* C10: the server serves, and a request reaches Generating, only with both
\* OPENAI_API_KEY and OPENAI_API_URL set.
C10_ServesOnlyWithConfiguration ==
  /\ mainPc = "serve" => EnvComplete
  /\ \A r \in Requests : Entered(r, "Generating") => EnvComplete

\* C11: a failure of init_vecdb at startup is fatal.  The step of main that
\* gets no collection from init_vecdb ends main, a main that has ended takes
\* no further step (it neither sets the handle nor binds the listener), and a
\* request is accepted only while the handle holds an opened collection.
C11_FailedInitIsFatal ==
  /\ [][ /\ (mainPc = "init_vecdb" /\ vecdb' \notin Collections) => mainPc' = "exited"
         /\ mainPc # "exited" ]_vars
  /\ [](mainPc = "exited" => ~VECDB.set /\ \A r \in Requests : req[r].kind = "none")
  /\ [](\A r \in Requests :
          req[r].kind # "none" => VECDB.set /\ VECDB.db \in Collections)

\* init_vecdb has failed and main has returned its error
C11_Witness ==
  /\ mainPc = "exited"
  /\ vecdb = NoCollection
  /\ ~VECDB.set
  /\ \A r \in Requests : req[r].kind = "none"

\* the step request r takes next, whichever handler it runs
RequestStep(r) ==
  \/ EmbedReturn(r)
  \/ AcquireRead(r)
  \/ FindSimilarReturn(r)
  \/ LLMReturn(r)
  \/ TestEmbedReturn(r)
  \/ TestFindReturn(r)

InFlight(r) == req[r].kind # "none" /\ ~Finished(r)

\* C12: requests are isolated.  A step that changes one request (its failure
\* by an error or by a panic included) changes no other request, neither the
\* handle nor the environment, and no other request's read guard; the outcome
\* of a finished request never changes; a request in flight can take its next
\* step whatever became of the others; and a /generate request holds the
\* guard of the shared index only during Retrieving.
C12_RequestsIsolated ==
  /\ [][\A r \in Requests :
          req'[r] # req[r]
            => /\ \A q \in Requests \ {r} : req'[q] = req[q]
               /\ VECDB' = VECDB /\ env' = env /\ writer' = writer
               /\ readers' \ {r} = readers \ {r}]_vars
  /\ [][\A r \in Requests : Finished(r) => req'[r] = req[r]]_vars
  /\ [](\A r \in Requests : InFlight(r) => ENABLED RequestStep(r))
  /\ [](\A r \in Requests :
          Generate(r) /\ r \in readers => Last(req[r].stages) = "Retrieving")

\* one request has ended by a panic of its LLM call, and a later one has gone
\* through all stages and is answered 200
C12_Witness ==
  \E r, q \in Requests :
    /\ r < q
    /\ Generate(r) /\ req[r].result = Panic(MsgSendFailed)
    /\ Generate(q) /\ req[q].stages = StageOrder /\ req[q].response.status = 200
    /\ VECDB.set /\ readers = {}

RECURSIVE SeparatedBy(_, _)
\* the strings of strs one after the other, sep between each two neighbours
SeparatedBy(strs, sep) ==
  IF Len(strs) = 0 THEN <<>>
  ELSE IF Len(strs) = 1 THEN strs[1]
  ELSE SeparatedBy(SubSeq(strs, 1, Len(strs) - 1), sep) \o sep \o strs[Len(strs)]

\* s occurs in text at position i
OccursAt(s, text, i) ==
  i >= 1 /\ i + Len(s) - 1 <= Len(text) /\ SubSeq(text, i, i + Len(s) - 1) = s

\* C13: for every context list and every query, generate_prompt_msgs returns
\* exactly two messages: first one of role system with the fixed instruction
\* text, then one of role user whose content is the fixed template holding the
\* rows' contents, in the order given and joined by single newlines, and after
\* them the query.
C13_PromptIsSystemThenUser ==
  call.op = "generate_prompt_msgs" /\ call.done =>
    LET msgs == call.out
        tables == call.context_tables
        joined == SeparatedBy([i \in 1..Len(tables) |-> tables[i].content], <<"\n">>)
        at == Len(UserPrefix) + 1
        query_at == at + Len(joined) + Len(UserMiddle)
    IN  /\ Len(msgs) = 2
        /\ msgs[1] = << <<"s", "y", "s", "t", "e", "m">>, SysPrompt >>
        /\ msgs[2][1] = <<"u", "s", "e", "r">>
        /\ Len(msgs[2][2]) = Len(UserPrefix) + Len(joined) + Len(UserMiddle)
                               + Len(call.query) + Len(UserSuffix)
        /\ OccursAt(UserPrefix, msgs[2][2], 1)
        /\ OccursAt(joined, msgs[2][2], at)
        /\ OccursAt(UserMiddle, msgs[2][2], at + Len(joined))
        /\ OccursAt(call.query, msgs[2][2], query_at)
        /\ OccursAt(UserSuffix, msgs[2][2], query_at + Len(call.query))

\* the prompt was built from two rows of different contents and a query that
\* is also the first row's content
C13_Witness ==
  /\ call.op = "generate_prompt_msgs" /\ call.done
  /\ Len(call.context_tables) = 2
  /\ call.context_tables[1].content = <<"t", "1">>
  /\ call.context_tables[2].content = <<"t", "2">>
  /\ call.query = <<"t", "1">>
  /\ Len(call.out) = 2

\* C14: an LLM request built with neither max_tokens nor temperature given
\* carries max_tokens 200 and temperature 1.0 (10 tenths), in the request and
\* in its JSON body; the LLM request of a /generate request carries max_tokens
\* 800 and temperature 0.5 (5 tenths); and the index search of a /generate
\* request asks for 20 rows.
C14_RequestParameters ==
  /\ call.op = "get_json_request" /\ call.defaults
       => /\ call.self.max_tokens = 200
          /\ call.self.temperature = 10
          /\ call.done => /\ IndexKey(call.out, K_max_tokens) = JNumber(200)
                          /\ IndexKey(call.out, K_temperature) = JFloat(10)
  /\ \A r \in Requests :
       Generate(r) =>
         /\ req[r].llm_calls > 0 /\ ~Finished(r)
              => /\ req[r].pc = "LLMCall"
                 /\ req[r].request.max_tokens = 800
                 /\ req[r].request.temperature = 5
                 /\ IndexKey(get_json_request(req[r].request), K_max_tokens)
                      = JNumber(800)
                 /\ IndexKey(get_json_request(req[r].request), K_temperature)
                      = JFloat(5)
         /\ req[r].pc \in {"ReadLock", "FindSimilar"} \/ req[r].find_calls > 0
              => req[r].num_tables = 20

\* a /generate request has searched the index and its LLM request is on its
\* way, while another is about to search
C14_Witness ==
  \E r, q \in Requests :
    /\ Generate(r) /\ req[r].pc = "LLMCall" /\ req[r].find_calls = 1
    /\ req[r].request.max_tokens = 800
    /\ Generate(q) /\ req[q].pc = "FindSimilar" /\ req[q].num_tables = 20

\* the keys of a JSON object
KeysOf(v) == { v.o[i][1] : i \in 1..Len(v.o) }

\* C15: the JSON body of an LLM request is an object with exactly the members
\* messages, max_tokens and temperature; messages is an array with one entry
\* per message of the request, in the same order, each an object with exactly
\* the members role and content, equal to the message's role and content;
\* max_tokens and temperature are the request's.
C15_JsonBodyMirrorsRequest ==
  call.op = "get_json_request" /\ call.done =>
    LET body == call.out
        self == call.self
        entries == IndexKey(body, K_messages)
    IN  /\ body.t = "Object"
        /\ Len(body.o) = 3
        /\ KeysOf(body) = { <<"m", "e", "s", "s", "a", "g", "e", "s">>,
                            <<"m", "a", "x", "_", "t", "o", "k", "e", "n", "s">>,
                            <<"t", "e", "m", "p", "e", "r", "a", "t", "u", "r", "e">> }
        /\ entries.t = "Array"
        /\ Len(entries.a) = Len(self.messages)
        /\ \A i \in 1..Len(self.messages) :
             /\ entries.a[i].t = "Object"
             /\ Len(entries.a[i].o) = 2
             /\ IndexKey(entries.a[i], <<"r", "o", "l", "e">>)
                  = JString(self.messages[i][1])
             /\ IndexKey(entries.a[i], <<"c", "o", "n", "t", "e", "n", "t">>)
                  = JString(self.messages[i][2])
        /\ IndexKey(body, K_max_tokens) = JNumber(self.max_tokens)
        /\ IndexKey(body, K_temperature) = JFloat(self.temperature)

\* the body of a request of two different messages, the second with a
\* quotation mark in its content, has been built
C15_Witness ==
  /\ call.op = "get_json_request" /\ call.done
  /\ Len(call.self.messages) = 2
  /\ call.self.messages[1] = <<RoleSystem, <<"s">> >>
  /\ call.self.messages[2] = <<RoleUser, <<"a", "\"", "b">> >>
  /\ Len(IndexKey(call.out, K_messages).a) = 2

\* C16: no call is made a second time.  Within one request the embedding
\* call, the index search and the LLM call are each made at most once, and a
\* call is made only after the calls before it; a request one of whose calls
\* failed has ended in the step the failure came back, with exactly the calls
\* up to the failed one made: a failed embedding or search is answered 500
\* with its error, and a failed send has returned its error.
C16_NoCallMadeTwice ==
  \A r \in Requests :
    LET calls == <<req[r].embed_calls, req[r].find_calls, req[r].llm_calls>>
    IN  /\ calls \in { <<0, 0, 0>>, <<1, 0, 0>>, <<1, 1, 0>>, <<1, 1, 1>> }
        /\ req[r].failed = "Embedding"
             => Finished(r) /\ calls = <<1, 0, 0>>
        /\ req[r].failed = "Retrieving"
             => Finished(r) /\ calls = <<1, 1, 0>>
        /\ Generate(r) /\ req[r].failed # "none"
             => /\ req[r].result.kind = "Err"
                /\ req[r].response = [sent |-> TRUE, status |-> 500,
                                      body |-> req[r].result.s]
        /\ req[r].reply.net \in {"err", "body_err"}
             => Finished(r) /\ calls = <<1, 1, 1>> /\ req[r].sent = Err(MsgTransport)

\* of two finished requests, one ended on its failed index search and the
\* other on its failed send
C16_Witness ==
  \E r, q \in Requests :
    /\ Generate(r) /\ req[r].failed = "Retrieving" /\ req[r].result = Err(MsgStorage)
    /\ req[r].find_calls = 1 /\ req[r].llm_calls = 0
    /\ Generate(q) /\ req[q].reply.net = "err" /\ req[q].llm_calls = 1
    /\ Finished(q)

\* C17: no handler takes the write guard or changes the shared index.  No
\* write guard is ever held; once the server serves, no step changes the
\* handle or the collection behind it; and a request waiting for the read
\* guard is granted it whichever other requests hold it: the step it takes
\* leaves it among the holders, beside those that held the guard before.
C17_IndexReadOnly ==
  /\ [](writer = FALSE)
  /\ [](\A r \in Requests :
          req[r].pc \in {"ReadLock", "T_ReadLock"} => ENABLED AcquireRead(r))
  /\ [][mainPc = "serve" => VECDB' = VECDB /\ writer' = writer]_vars
  /\ [][\A r \in Requests :
          req[r].pc \in {"ReadLock", "T_ReadLock"} /\ req'[r] # req[r]
            => readers' = readers \cup {r}]_vars

\* every request holds the read guard at the same time, and the handle is the
\* collection opened at startup
C17_Witness ==
  /\ readers = Requests
  /\ \E r \in Requests : Generate(r) /\ req[r].pc = "FindSimilar"
  /\ VECDB.set /\ VECDB.db \in Collections
  /\ ~writer

\* C18: the read guard is released on every way out of retrieval.  A
\* /generate request holds the guard only while its index search is in
\* progress: once get_relevant_context_tables has returned (the search made,
\* whether it and the decoding of its rows succeeded or failed) the request
\* holds no guard; no finished request of either handler holds one; and when
\* no request is in flight nobody holds the guard.
C18_GuardReleasedOnEveryExit ==
  /\ \A r \in Requests :
       /\ Generate(r) /\ req[r].find_calls > 0 => r \notin readers
       /\ Generate(r) /\ req[r].pc # "FindSimilar" => r \notin readers
       /\ Finished(r) => r \notin readers
       /\ req[r].kind = "none" => r \notin readers
  /\ (\A r \in Requests : ~InFlight(r)) => readers = {}

\* every request was accepted and has finished, one of them after a failed
\* index search and one after rows that could not be decoded
C18_Witness ==
  /\ \A r \in Requests : Finished(r)
  /\ \E r, q \in Requests :
       /\ Generate(r) /\ req[r].result = Err(MsgStorage) /\ req[r].find_calls = 1
       /\ Generate(q) /\ req[q].result = Err(MsgDecode) /\ req[q].find_calls = 1
  /\ readers = {}

\* the server with fair scheduling and external calls that return: a request
\* whose next step can be taken does take it
LiveSpec == Spec /\ \A r \in Requests : WF_vars(RequestStep(r))

\* C19: every accepted /generate request eventually reaches Done or Failed
\* and is answered, given that each external call returns and that the tasks
\* are scheduled fairly.  Stated of a process whose configuration is complete,
\* so that what refutes it is a call that returned a failure and not the
\* missing configuration of C10.
C19_EveryRequestAnswered ==
  \A r \in Requests :
    (Generate(r) /\ EnvComplete)
                ~> (/\ req[r].response.sent
                    /\ Entered(r, "Done") \/ Entered(r, "Failed"))

\* what holds of C19: under the same fairness every accepted request finishes,
\* answered or panicked, and none waits for the read guard forever
EveryRequestFinishes ==
  \A r \in Requests :
    /\ (req[r].kind # "none") ~> Finished(r)
    /\ (req[r].pc \in {"ReadLock", "T_ReadLock"})
         ~> (req[r].pc \notin {"ReadLock", "T_ReadLock"})

====================================================================================
